---- MODULE Spec2Model ----
(***************************************************************************)
(* Customer record service of getninjas-contact-sheets: the server actions *)
(* of src/app/actions.ts (testConnection, registerCustomer, getCustomers,  *)
(* updateCustomer, deleteCustomer) over a Google Sheets worksheet, and the *)
(* validators and formatters of src/lib/validations.ts.                    *)
(*                                                                         *)
(* Strings that the code inspects character by character (cells, form      *)
(* values) are sequences of one-character strings.  Fixed message texts    *)
(* are TLA+ strings, written without accents.  A template literal is the   *)
(* tuple of its parts.                                                     *)
(*                                                                         *)
(* Every server action is a sequence of steps separated by its awaits:     *)
(* loadInfo, getOrCreateCustomerSheet, getRows, and addRow/save/delete.    *)
(* Several requests may be in flight at once (Spec); SeqSpec runs them one  *)
(* at a time.  Each awaited call either completes or throws; a call that   *)
(* throws changes nothing in the worksheet.                                 *)
(***************************************************************************)
EXTENDS Integers, Sequences, FiniteSets, TLC

VARIABLES env, header, sheet, req, started, reg, cust, call

vars == <<env, header, sheet, req, started, reg, cust, call>>

\* ------------------------------------------------------------------ bounds
\* The longest argument given to validatePhone, and to validateCEP.
MaxPhoneLen == 12
MaxCepLen == 9

\* The longest argument given to validateName, and to validateEmail.
MaxNameLen == 101
MaxEmailLen == 6

\* Under UiSpec: server actions called in all, and postal code lookups
\* awaited together.
MaxUiCalls == 3
MaxLookups == 1

\* Calls made in all under Spec, and under SeqSpec; the largest identifier asked for.
MaxOps == 2
MaxSeqOps == 4
MaxId == 2

\* Under ListSpec: calls made in all, and rows of the worksheet at the start.
MaxListOps == 1
MaxListRows == 2

\* Under TableSpec: rows of the worksheet at the start.
MaxTableRows == 3

\* The requests that can be in flight together.
Reqs == {1, 2}

\* ----------------------------------------------------------------- strings
\* The sequences over S of length at most n.
RECURSIVE SeqsUpTo(_, _)
SeqsUpTo(S, n) ==
    IF n = 0 THEN {<<>>}
    ELSE LET shorter == SeqsUpTo(S, n - 1)
         IN  shorter \cup {Append(t, x) : t \in shorter, x \in S}

DigitChars == <<"0", "1", "2", "3", "4", "5", "6", "7", "8", "9">>

IsDigit(c) == \E i \in 1..10 : DigitChars[i] = c

DigitVal(c) == (CHOOSE i \in 1..10 : DigitChars[i] = c) - 1

IsSpace(c) == c = " "

\* String(n) for a non-negative integer, as the worksheet stores a number.
RECURSIVE NatToStr(_)
NatToStr(n) ==
    IF n < 10 THEN <<DigitChars[n + 1]>>
    ELSE NatToStr(n \div 10) \o <<DigitChars[(n % 10) + 1]>>

\* phone.replace(/\D/g, "")
StripNonDigits(s) == SelectSeq(s, IsDigit)

RECURSIVE DigitsToNat(_)
DigitsToNat(s) ==
    IF Len(s) = 0 THEN 0
    ELSE 10 * DigitsToNat(SubSeq(s, 1, Len(s) - 1)) + DigitVal(s[Len(s)])

RECURSIVE SkipSpaces(_)
SkipSpaces(s) ==
    IF Len(s) > 0 /\ IsSpace(s[1]) THEN SkipSpaces(Tail(s)) ELSE s

RECURSIVE DigitPrefix(_)
DigitPrefix(s) ==
    IF Len(s) > 0 /\ IsDigit(s[1]) THEN <<s[1]>> \o DigitPrefix(Tail(s)) ELSE <<>>

\* Number.parseInt(cell): leading white space, an optional sign, then the
\* longest run of digits; NaN when there is no digit.
ParseInt(s) ==
    LET t == SkipSpaces(s)
        neg == Len(t) > 0 /\ t[1] = "-"
        u == IF Len(t) > 0 /\ t[1] \in {"-", "+"} THEN Tail(t) ELSE t
        d == DigitPrefix(u)
    IN  IF Len(d) = 0 THEN [nan |-> TRUE, val |-> 0]
        ELSE [nan |-> FALSE, val |-> IF neg THEN 0 - DigitsToNat(d) ELSE DigitsToNat(d)]

\* Number.parseInt(row.get("ID")) === id
ParsesTo(cell, id) == ~ParseInt(cell).nan /\ ParseInt(cell).val = id

\* ------------------------------------------------------------ validations
Valid == [isValid |-> TRUE, message |-> ""]

Invalid(m) == [isValid |-> FALSE, message |-> m]

\* Mutant: the pattern is not anchored at the end.
EmailRegexTestPrefix(s) ==
    \E n \in 1..Len(s), i \in 2..Len(s), j \in 1..Len(s) :
        /\ i + 1 < j
        /\ j < n
        /\ s[i] = "@"
        /\ s[j] = "."
        /\ \A k \in (1..n) \ {i} : ~IsSpace(s[k]) /\ s[k] # "@"

\* /^[^\s@]+@[^\s@]+\.[^\s@]+$/
EmailRegexTest(s) ==
    /\ \A k \in 1..Len(s) : ~IsSpace(s[k])
    /\ \E i \in 1..Len(s) :
          /\ s[i] = "@"
          /\ \A k \in 1..Len(s) : s[k] = "@" => k = i
          /\ i > 1
          /\ \E j \in (i + 2)..(Len(s) - 1) : s[j] = "."

validateEmail(email) ==
    IF Len(email) = 0 THEN Invalid("Email e obrigatorio")
    ELSE IF ~EmailRegexTest(email) THEN Invalid("Formato de email invalido")
    ELSE Valid

\* Mutant: the lower limit on the digit count is not tested.
validatePhoneNoLowerLimit(phone) ==
    IF Len(phone) = 0 THEN Invalid("Telefone e obrigatorio")
    ELSE LET cleanPhone == StripNonDigits(phone)
         IN  IF Len(cleanPhone) > 11
             THEN Invalid("Telefone deve ter 10 ou 11 digitos")
             ELSE Valid

validatePhone(phone) ==
    IF Len(phone) = 0 THEN Invalid("Telefone e obrigatorio")
    ELSE LET cleanPhone == StripNonDigits(phone)
         IN  IF Len(cleanPhone) < 10 \/ Len(cleanPhone) > 11
             THEN Invalid("Telefone deve ter 10 ou 11 digitos")
             ELSE Valid

\* Mutant: the pattern is not anchored at the end.
CepRegexTestPrefix(s) ==
    /\ Len(s) >= 8
    /\ \A k \in 1..5 : IsDigit(s[k])
    /\ \/ \A k \in 6..8 : IsDigit(s[k])
       \/ Len(s) >= 9 /\ s[6] = "-" /\ \A k \in 7..9 : IsDigit(s[k])

\* /^\d{5}-?\d{3}$/
CepRegexTest(s) ==
    \/ Len(s) = 8 /\ \A k \in 1..8 : IsDigit(s[k])
    \/ /\ Len(s) = 9
       /\ s[6] = "-"
       /\ \A k \in (1..9) \ {6} : IsDigit(s[k])

validateCEP(cep) ==
    IF Len(cep) = 0 THEN Valid
    ELSE IF ~CepRegexTest(cep) THEN Invalid("CEP deve ter o formato 12345-678")
    ELSE Valid

\* s without the spaces at its two ends.
RECURSIVE Trim(_)
Trim(s) ==
    IF Len(s) > 0 /\ IsSpace(s[1]) THEN Trim(Tail(s))
    ELSE IF Len(s) > 0 /\ IsSpace(s[Len(s)]) THEN Trim(SubSeq(s, 1, Len(s) - 1))
    ELSE s

\* Mutant: the name is measured after trimming.
validateNameTrimmed(name) ==
    IF Len(Trim(name)) = 0 THEN Invalid("Nome e obrigatorio")
    ELSE IF Len(Trim(name)) < 2 THEN Invalid("Nome deve ter pelo menos 2 caracteres")
    ELSE IF Len(Trim(name)) > 100 THEN Invalid("Nome deve ter no maximo 100 caracteres")
    ELSE Valid

validateName(name) ==
    IF Len(name) = 0 THEN Invalid("Nome e obrigatorio")
    ELSE IF Len(name) < 2 THEN Invalid("Nome deve ter pelo menos 2 caracteres")
    ELSE IF Len(name) > 100 THEN Invalid("Nome deve ter no maximo 100 caracteres")
    ELSE Valid

\* Mutant: the last group is written before the middle one.
formatPhoneGroupsSwapped(phone) ==
    LET cleaned == StripNonDigits(phone)
    IN  IF Len(cleaned) = 11
        THEN <<"(">> \o SubSeq(cleaned, 1, 2) \o <<")", " ">> \o SubSeq(cleaned, 8, 11)
             \o <<"-">> \o SubSeq(cleaned, 3, 7)
        ELSE IF Len(cleaned) = 10
        THEN <<"(">> \o SubSeq(cleaned, 1, 2) \o <<")", " ">> \o SubSeq(cleaned, 7, 10)
             \o <<"-">> \o SubSeq(cleaned, 3, 6)
        ELSE phone

\* Mutant: ten digits are split as eleven are, five then four.
formatPhoneFiveFirst(phone) ==
    LET cleaned == StripNonDigits(phone)
    IN  IF Len(cleaned) \in {10, 11}
        THEN <<"(">> \o SubSeq(cleaned, 1, 2) \o <<")", " ">> \o SubSeq(cleaned, 3, 7)
             \o <<"-">> \o SubSeq(cleaned, 8, Len(cleaned))
        ELSE phone

formatPhone(phone) ==
    LET cleaned == StripNonDigits(phone)
    IN  IF Len(cleaned) = 11
        THEN <<"(">> \o SubSeq(cleaned, 1, 2) \o <<")", " ">> \o SubSeq(cleaned, 3, 7)
             \o <<"-">> \o SubSeq(cleaned, 8, 11)
        ELSE IF Len(cleaned) = 10
        THEN <<"(">> \o SubSeq(cleaned, 1, 2) \o <<")", " ">> \o SubSeq(cleaned, 3, 6)
             \o <<"-">> \o SubSeq(cleaned, 7, 10)
        ELSE phone

\* Mutant: the second group holds two digits.
formatCEPFiveTwo(cep) ==
    LET cleaned == StripNonDigits(cep)
    IN  IF Len(cleaned) = 8
        THEN SubSeq(cleaned, 1, 5) \o <<"-">> \o SubSeq(cleaned, 6, 7)
        ELSE cep

\* Mutant: the first eight digits of a longer argument are rendered too.
formatCEPFirstEight(cep) ==
    LET cleaned == StripNonDigits(cep)
    IN  IF Len(cleaned) >= 8
        THEN SubSeq(cleaned, 1, 5) \o <<"-">> \o SubSeq(cleaned, 6, 8)
        ELSE cep

formatCEP(cep) ==
    LET cleaned == StripNonDigits(cep)
    IN  IF Len(cleaned) = 8
        THEN SubSeq(cleaned, 1, 5) \o <<"-">> \o SubSeq(cleaned, 6, 8)
        ELSE cep

\* ------------------------------------------------------------------- rows
\* Header values of the worksheet (getOrCreateCustomerSheet), without accents.
Columns ==
    {"ID", "Codigo do cliente", "Nome", "Email", "Telefone", "Endereco", "Cidade",
     "Estado", "CEP", "Fonte de Aquisicao", "Tipo de Servico", "Realizado",
     "Observacoes", "Data de Registro"}

\* Fields of CustomerRegistrationData.
Fields ==
    {"customerCode", "fullName", "email", "phone", "address", "city", "state",
     "zipCode", "acquisitionSource", "serviceType", "isCompleted", "observations"}

EmptyRow == [c \in Columns |-> <<>>]

\* data.isCompleted ? "S" : "N"
CompletedCell(b) == IF b THEN <<"S">> ELSE <<"N">>

\* Mutant: the phone is stored as it was supplied.
NewRowRawPhone(data, nextId, today) ==
    [c \in Columns |->
        CASE c = "ID" -> NatToStr(nextId)
          [] c = "Codigo do cliente" -> data.customerCode
          [] c = "Nome" -> data.fullName
          [] c = "Email" -> data.email
          [] c = "Telefone" -> data.phone
          [] c = "Endereco" -> data.address
          [] c = "Cidade" -> data.city
          [] c = "Estado" -> data.state
          [] c = "CEP" -> data.zipCode
          [] c = "Fonte de Aquisicao" -> data.acquisitionSource
          [] c = "Tipo de Servico" -> data.serviceType
          [] c = "Realizado" -> CompletedCell(data.isCompleted)
          [] c = "Observacoes" -> data.observations
          [] c = "Data de Registro" -> today]

\* The object registerCustomer hands to sheet.addRow.
NewRow(data, nextId, today) ==
    [c \in Columns |->
        CASE c = "ID" -> NatToStr(nextId)
          [] c = "Codigo do cliente" -> data.customerCode
          [] c = "Nome" -> data.fullName
          [] c = "Email" -> data.email
          [] c = "Telefone" -> formatPhone(data.phone)
          [] c = "Endereco" -> data.address
          [] c = "Cidade" -> data.city
          [] c = "Estado" -> data.state
          [] c = "CEP" -> data.zipCode
          [] c = "Fonte de Aquisicao" -> data.acquisitionSource
          [] c = "Tipo de Servico" -> data.serviceType
          [] c = "Realizado" -> CompletedCell(data.isCompleted)
          [] c = "Observacoes" -> data.observations
          [] c = "Data de Registro" -> today]

\* data.f !== undefined
Given(data, f) == f \in DOMAIN data

\* Mutant: the email column is written from the name field.
ApplyUpdateNameIntoEmail(row, data) ==
    [c \in Columns |->
        CASE c = "Nome" /\ Given(data, "fullName") -> data.fullName
          [] c = "Email" /\ Given(data, "fullName") -> data.fullName
          [] c = "Telefone" /\ Given(data, "phone") -> formatPhone(data.phone)
          [] c = "Endereco" /\ Given(data, "address") -> data.address
          [] c = "Cidade" /\ Given(data, "city") -> data.city
          [] c = "Estado" /\ Given(data, "state") -> data.state
          [] c = "CEP" /\ Given(data, "zipCode") -> data.zipCode
          [] c = "Fonte de Aquisicao" /\ Given(data, "acquisitionSource") ->
                data.acquisitionSource
          [] c = "Tipo de Servico" /\ Given(data, "serviceType") -> data.serviceType
          [] c = "Realizado" /\ Given(data, "isCompleted") ->
                CompletedCell(data.isCompleted)
          [] c = "Observacoes" /\ Given(data, "observations") -> data.observations
          [] OTHER -> row[c]]

\* Mutant: the customer code column is written too.
ApplyUpdateWithCode(row, data) ==
    [c \in Columns |->
        CASE c = "Codigo do cliente" /\ Given(data, "customerCode") -> data.customerCode
          [] c = "Nome" /\ Given(data, "fullName") -> data.fullName
          [] c = "Email" /\ Given(data, "email") -> data.email
          [] c = "Telefone" /\ Given(data, "phone") -> formatPhone(data.phone)
          [] c = "Endereco" /\ Given(data, "address") -> data.address
          [] c = "Cidade" /\ Given(data, "city") -> data.city
          [] c = "Estado" /\ Given(data, "state") -> data.state
          [] c = "CEP" /\ Given(data, "zipCode") -> data.zipCode
          [] c = "Fonte de Aquisicao" /\ Given(data, "acquisitionSource") ->
                data.acquisitionSource
          [] c = "Tipo de Servico" /\ Given(data, "serviceType") -> data.serviceType
          [] c = "Realizado" /\ Given(data, "isCompleted") ->
                CompletedCell(data.isCompleted)
          [] c = "Observacoes" /\ Given(data, "observations") -> data.observations
          [] OTHER -> row[c]]

\* The rowToUpdate.set calls of updateCustomer, in the local row object.
ApplyUpdate(row, data) ==
    [c \in Columns |->
        CASE c = "Nome" /\ Given(data, "fullName") -> data.fullName
          [] c = "Email" /\ Given(data, "email") -> data.email
          [] c = "Telefone" /\ Given(data, "phone") -> formatPhone(data.phone)
          [] c = "Endereco" /\ Given(data, "address") -> data.address
          [] c = "Cidade" /\ Given(data, "city") -> data.city
          [] c = "Estado" /\ Given(data, "state") -> data.state
          [] c = "CEP" /\ Given(data, "zipCode") -> data.zipCode
          [] c = "Fonte de Aquisicao" /\ Given(data, "acquisitionSource") ->
                data.acquisitionSource
          [] c = "Tipo de Servico" /\ Given(data, "serviceType") -> data.serviceType
          [] c = "Realizado" /\ Given(data, "isCompleted") ->
                CompletedCell(data.isCompleted)
          [] c = "Observacoes" /\ Given(data, "observations") -> data.observations
          [] OTHER -> row[c]]

\* Mutant: the identifier is the row count, not the count plus one.
NextIdOffByOne(rows) == Len(rows)

RECURSIVE MaxStoredId(_)
MaxStoredId(rows) ==
    IF Len(rows) = 0 THEN 0
    ELSE LET rest == MaxStoredId(Tail(rows))
             here == IF ParseInt(rows[1]["ID"]).nan THEN 0 ELSE ParseInt(rows[1]["ID"]).val
         IN  IF here > rest THEN here ELSE rest

\* Mutant: the identifier is one more than the largest stored identifier.
NextIdAfterMax(rows) == MaxStoredId(rows) + 1

\* const nextId = rows.length + 1
NextId(rows) == Len(rows) + 1

\* Mutant: the last matching row is taken.
FindRowLast(rows, id) ==
    IF \E i \in 1..Len(rows) : ParsesTo(rows[i]["ID"], id)
    THEN CHOOSE i \in 1..Len(rows) :
            /\ ParsesTo(rows[i]["ID"], id)
            /\ \A j \in (i + 1)..Len(rows) : ~ParsesTo(rows[j]["ID"], id)
    ELSE 0

\* Mutant: with no matching row, the last row is taken.
FindRowOrLast(rows, id) ==
    IF \E i \in 1..Len(rows) : ParsesTo(rows[i]["ID"], id)
    THEN CHOOSE i \in 1..Len(rows) :
            /\ ParsesTo(rows[i]["ID"], id)
            /\ \A j \in 1..(i - 1) : ~ParsesTo(rows[j]["ID"], id)
    ELSE Len(rows)

\* rows.find((row) => Number.parseInt(row.get("ID")) === id): the position of
\* the first such row, 0 when there is none.
FindRow(rows, id) ==
    IF \E i \in 1..Len(rows) : ParsesTo(rows[i]["ID"], id)
    THEN CHOOSE i \in 1..Len(rows) :
            /\ ParsesTo(rows[i]["ID"], id)
            /\ \A j \in 1..(i - 1) : ~ParsesTo(rows[j]["ID"], id)
    ELSE 0

\* Mutant: every marker but "N" counts as completed.
ToCustomerUnlessN(row, index) ==
    [id |-> IF ParseInt(row["ID"]).nan \/ ParseInt(row["ID"]).val = 0
            THEN index + 1 ELSE ParseInt(row["ID"]).val,
     customerCode |-> row["Codigo do cliente"],
     fullName |-> row["Nome"],
     email |-> row["Email"],
     phone |-> row["Telefone"],
     address |-> row["Endereco"],
     city |-> row["Cidade"],
     state |-> row["Estado"],
     zipCode |-> row["CEP"],
     acquisitionSource |-> row["Fonte de Aquisicao"],
     serviceType |-> row["Tipo de Servico"],
     isCompleted |-> row["Realizado"] # <<"N">>,
     observations |-> row["Observacoes"],
     registrationDate |-> row["Data de Registro"]]

\* Mutant: the default identifier is the zero-based index.
ToCustomerIndexDefault(row, index) ==
    [id |-> IF ParseInt(row["ID"]).nan \/ ParseInt(row["ID"]).val = 0
            THEN index ELSE ParseInt(row["ID"]).val,
     customerCode |-> row["Codigo do cliente"],
     fullName |-> row["Nome"],
     email |-> row["Email"],
     phone |-> row["Telefone"],
     address |-> row["Endereco"],
     city |-> row["Cidade"],
     state |-> row["Estado"],
     zipCode |-> row["CEP"],
     acquisitionSource |-> row["Fonte de Aquisicao"],
     serviceType |-> row["Tipo de Servico"],
     isCompleted |-> row["Realizado"] = <<"S">>,
     observations |-> row["Observacoes"],
     registrationDate |-> row["Data de Registro"]]

\* The rows -> customers map of getCustomers; index is zero-based.
ToCustomer(row, index) ==
    [id |-> IF ParseInt(row["ID"]).nan \/ ParseInt(row["ID"]).val = 0
            THEN index + 1 ELSE ParseInt(row["ID"]).val,
     customerCode |-> row["Codigo do cliente"],
     fullName |-> row["Nome"],
     email |-> row["Email"],
     phone |-> row["Telefone"],
     address |-> row["Endereco"],
     city |-> row["Cidade"],
     state |-> row["Estado"],
     zipCode |-> row["CEP"],
     acquisitionSource |-> row["Fonte de Aquisicao"],
     serviceType |-> row["Tipo de Servico"],
     isCompleted |-> row["Realizado"] = <<"S">>,
     observations |-> row["Observacoes"],
     registrationDate |-> row["Data de Registro"]]

\* Mutant: the records come out last row first.
CustomersReversed(rows) ==
    [i \in 1..Len(rows) |-> ToCustomer(rows[Len(rows) - i + 1], i - 1)]

Customers(rows) == [i \in 1..Len(rows) |-> ToCustomer(rows[i], i - 1)]

\* ---------------------------------------------------------------- worksheet
\* sheet.addRow: the values API appends after the last row of the table.
AddRow(rows, raw) == Append(rows, raw)

\* Mutant: save returns without writing.
SaveRowNoWrite(rows, n, raw) == rows

\* row.save(): writes the row object's cells to the row number the object
\* was read at (1-based position n among the data rows).
SaveRow(rows, n, raw) ==
    IF n <= Len(rows) THEN [rows EXCEPT ![n] = raw]
    ELSE rows \o [k \in 1..(n - Len(rows) - 1) |-> EmptyRow] \o <<raw>>

\* Mutant: the last row is deleted, whatever row was located.
DeleteLastRow(rows, n) == SubSeq(rows, 1, Len(rows) - 1)

\* row.delete(): deletes the row at the row number the object was read at.
DeleteRow(rows, n) ==
    IF n <= Len(rows)
    THEN [k \in 1..(Len(rows) - 1) |-> IF k < n THEN rows[k] ELSE rows[k + 1]]
    ELSE rows

\* ------------------------------------------------------------------ inputs
Str_Ana == <<"A", "n", "a">>
Str_Bo == <<"B", "o">>
Str_Bea == <<"B", "e", "a">>
Str_C1 == <<"C", "1">>
Str_C2 == <<"C", "2">>
Str_C9 == <<"C", "9">>
Str_Email == <<"a", "@", "x", ".", "c">>
Str_NotAnEmail == <<"n", "o", "t", "-", "a", "n">>
Str_Phone11 == <<"1", "1", "9", "9", "9", "9", "9", "8", "8", "8", "8">>
Str_Phone10 == <<"1", "1", "4", "4", "4", "4", "5", "5", "5", "5">>
Str_Rua == <<"R", "u", "a">>

\* Arguments of registerCustomer: a valid record, and one whose email the
\* validators reject (the action is callable with any data).
RegAna ==
    [customerCode |-> Str_C1, fullName |-> Str_Ana, email |-> Str_Email,
     phone |-> Str_Phone11, address |-> <<>>, city |-> <<>>, state |-> <<>>,
     zipCode |-> <<>>, acquisitionSource |-> <<>>, serviceType |-> <<>>,
     isCompleted |-> FALSE, observations |-> <<>>]

RegBo ==
    [customerCode |-> Str_C2, fullName |-> Str_Bo, email |-> Str_NotAnEmail,
     phone |-> Str_Phone10, address |-> Str_Rua, city |-> <<>>, state |-> <<>>,
     zipCode |-> <<>>, acquisitionSource |-> <<>>, serviceType |-> <<>>,
     isCompleted |-> TRUE, observations |-> <<>>]

RegisterInputs == {RegAna, RegBo}

EmptyData == [f \in {} |-> <<>>]

\* Arguments of updateCustomer: Partial<CustomerRegistrationData>.
UpdateInputs ==
    {[fullName |-> Str_Bea, isCompleted |-> TRUE],
     [customerCode |-> Str_C9, phone |-> Str_Phone10, address |-> Str_Rua],
     EmptyData}

\* Identifiers the callers ask for.
Ids == 1..MaxId

\* new Date().toLocaleDateString("pt-BR")
Str_Date == <<"0", "4", "/", "1", "1", "/", "2", "0", "2", "6">>
Dates == {Str_Date}

\* ---------------------------------------------------------------- requests
NoResult ==
    [success |-> FALSE, error |-> "", message |-> <<>>, customerId |-> 0,
     rowNumber |-> 0, sheetCount |-> 0, customers |-> <<>>]

IdleReq ==
    [pc |-> "idle", op |-> "none", id |-> 0, data |-> EmptyData, rows |-> <<>>,
     idx |-> 0, nextId |-> 0, raw |-> <<>>, result |-> NoResult]

\* What an awaited call of the spreadsheet client may throw.
AdapterErrors ==
    {[isError |-> TRUE, message |-> "BackendError"],
     [isError |-> FALSE, message |-> ""]}

Error(m) == [isError |-> TRUE, message |-> m]

\* Mutant: error.message is read without the instanceof test.
ErrorTextMessageOnly(o, e) == e.message

\* error instanceof Error ? error.message : <default of the action>
ErrorText(o, e) ==
    IF e.isError THEN e.message
    ELSE CASE o = "test" -> "Erro desconhecido ao conectar"
           [] o = "register" -> "Erro desconhecido ao cadastrar cliente"
           [] OTHER -> "Erro desconhecido"

FailureMessage(o) ==
    CASE o = "test" -> "Falha na conexao com o Google Sheets"
      [] o = "register" ->
            "Falha ao cadastrar cliente. Verifique a conexao e tente novamente."
      [] o = "list" -> "Falha ao carregar lista de clientes"
      [] o = "update" -> "Falha ao atualizar cliente"
      [] o = "delete" -> "Falha ao excluir cliente"

\* The catch block of each action.
CatchResult(o, e) ==
    [NoResult EXCEPT !.success = FALSE,
                     !.error = ErrorText(o, e),
                     !.message = <<FailureMessage(o)>>,
                     !.customers = <<>>]

\* process.env.X is set, for the three variables of the configuration.
EnvComplete == env.email /\ env.key /\ env.sheetId

\* The checks testConnection makes before it builds the client.
EnvCheck ==
    IF ~env.email THEN Error("GOOGLE_SERVICE_ACCOUNT_EMAIL nao esta definido")
    ELSE IF ~env.key THEN Error("GOOGLE_PRIVATE_KEY nao esta definido")
    ELSE IF ~env.sheetId THEN Error("GOOGLE_SHEET_ID nao esta definido")
    ELSE Error("")

\* Mutant: the document is reached without GOOGLE_SHEET_ID.
CanLoadInfoWithoutSheetId == env.email /\ env.key

\* doc.loadInfo() authenticates with the JWT built from the environment and
\* reads the document named by it: it can complete only with all three set.
CanLoadInfo == EnvComplete

\* doc.sheetCount
SheetCount == IF header = "nosheet" THEN 0 ELSE 1

Finish(r, res) == [req EXCEPT ![r].pc = "done", ![r].result = res]

\* -------------------------------------------------------------------- pages
\* Mutant: the completion box starts ticked.
InitialFormDataCompleted ==
    [fullName |-> <<>>, email |-> <<>>, phone |-> <<>>, address |-> <<>>,
     city |-> <<>>, state |-> <<>>, zipCode |-> <<>>, acquisitionSource |-> <<>>,
     serviceType |-> <<>>, isCompleted |-> TRUE, observations |-> <<>>]

\* useState initial values of the registration page.
InitialFormData ==
    [fullName |-> <<>>, email |-> <<>>, phone |-> <<>>, address |-> <<>>,
     city |-> <<>>, state |-> <<>>, zipCode |-> <<>>, acquisitionSource |-> <<>>,
     serviceType |-> <<>>, isCompleted |-> FALSE, observations |-> <<>>]

NoErrors == [f \in {} |-> ""]

\* Which handler of the page awaits each request, "none" when none does.
NoCalls == [r \in Reqs |-> "none"]

\* The registration page (app/page.tsx) before it is shown.
RegPageInit ==
    [mounted |-> FALSE, isLoading |-> FALSE, isTestingConnection |-> FALSE,
     connectionStatus |-> "unknown", customerCode |-> <<>>,
     validationErrors |-> NoErrors, formData |-> InitialFormData,
     calls |-> NoCalls]

\* editingCustomer === null
NullCustomer == ToCustomer(EmptyRow, 0)

\* The customer list page (app/customers/page.tsx) before it is shown.
CustPageInit ==
    [mounted |-> FALSE, customers |-> <<>>, isLoading |-> TRUE,
     editing |-> FALSE, editingCustomer |-> NullCustomer, isUpdating |-> FALSE,
     isLoadingCEP |-> FALSE, lookups |-> 0, customerToDelete |-> <<>>,
     prompts |-> {}, validationErrors |-> NoErrors, calls |-> NoCalls]

\* ---------------------------------------------------------- function calls
\* A call of one of the exported functions of lib/validations: the function,
\* its argument, and its return value once it has returned.
NoCall == [fn |-> "none", arg |-> <<>>, done |-> FALSE, ret |-> <<>>]

\* ------------------------------------------------------------------ actions
\* The worksheet as two earlier registrations left it.
TwoRows == <<NewRow(RegAna, 1, Str_Date), NewRow(RegBo, 2, Str_Date)>>

\* The document has no sheet, a sheet with an empty header row, or the
\* customer sheet: empty, or holding rows registered earlier.
Init ==
    /\ env \in [email : BOOLEAN, key : BOOLEAN, sheetId : BOOLEAN]
    /\ header \in {"nosheet", "empty", "set"}
    /\ sheet \in {<<>>, TwoRows}
    /\ sheet # <<>> => header = "set"
    /\ req = [r \in Reqs |-> IdleReq]
    /\ started = 0
    /\ reg = RegPageInit
    /\ cust = CustPageInit
    /\ call = NoCall

Begin(r, o, id, data) ==
    /\ req[r].pc = "idle"
    /\ started' = started + 1
    /\ req' = [req EXCEPT ![r] = [IdleReq EXCEPT !.pc = "loadInfo", !.op = o,
                                                 !.id = id, !.data = data]]
    /\ UNCHANGED <<env, header, sheet>>

\* testConnection is called: the environment is checked before any await.
CallTest(r) ==
    /\ req[r].pc = "idle"
    /\ started' = started + 1
    /\ req' = [req EXCEPT ![r] =
                  IF EnvCheck.message # ""
                  THEN [IdleReq EXCEPT !.pc = "done", !.op = "test",
                                       !.result = CatchResult("test", EnvCheck)]
                  ELSE [IdleReq EXCEPT !.pc = "loadInfo", !.op = "test"]]
    /\ UNCHANGED <<env, header, sheet>>

CallRegister(r) == \E data \in RegisterInputs : Begin(r, "register", 0, data)

CallList(r) == Begin(r, "list", 0, EmptyData)

CallUpdate(r) == \E id \in Ids, data \in UpdateInputs : Begin(r, "update", id, data)

CallDelete(r) == \E id \in Ids : Begin(r, "delete", id, EmptyData)

Call(r) ==
    \/ CallTest(r)
    \/ CallRegister(r)
    \/ CallList(r)
    \/ CallUpdate(r)
    \/ CallDelete(r)

\* await doc.loadInfo() completes.
LoadInfoOk(r) ==
    /\ req[r].pc = "loadInfo"
    /\ CanLoadInfo
    /\ req' =
          IF req[r].op = "test"
          THEN IF SheetCount = 0
               THEN Finish(r, CatchResult("test",
                              Error("A planilha nao possui nenhuma aba")))
               ELSE Finish(r, [NoResult EXCEPT
                              !.success = TRUE,
                              !.sheetCount = SheetCount,
                              !.message = <<"Conectado com sucesso a planilha ",
                                            SheetCount, " aba(s)">>])
          ELSE [req EXCEPT ![r].pc = "getSheet"]
    /\ UNCHANGED <<env, header, sheet, started>>

\* Mutant: a call that throws is made again from the start of the action.
ThrowsAndRetries(r, at) ==
    /\ req[r].pc = at
    /\ req' = [req EXCEPT ![r].pc = "loadInfo"]
    /\ UNCHANGED <<env, header, sheet, started>>

\* An awaited call throws: the catch block returns the failure result.
Throws(r, at) ==
    /\ req[r].pc = at
    /\ \E e \in AdapterErrors : req' = Finish(r, CatchResult(req[r].op, e))
    /\ UNCHANGED <<env, header, sheet, started>>

LoadInfoThrows(r) == Throws(r, "loadInfo")

\* getOrCreateCustomerSheet completes: addSheet when the document has no
\* sheet, else loadHeaderRow and, on an empty header row, setHeaderRow.
GetSheetOk(r) ==
    /\ req[r].pc = "getSheet"
    /\ header' = "set"
    /\ req' = [req EXCEPT ![r].pc = "getRows"]
    /\ UNCHANGED <<env, sheet, started>>

GetSheetThrows(r) == Throws(r, "getSheet")

\* await sheet.getRows() completes, and the action runs up to its next await.
GetRowsOk(r) ==
    /\ req[r].pc = "getRows"
    /\ \E rows \in {sheet}, found \in {FindRow(sheet, req[r].id)} :
           req' =
             CASE req[r].op = "register" ->
                    \* nextId = rows.length + 1, and the row for addRow
                    [req EXCEPT ![r].pc = "write", ![r].rows = rows,
                                ![r].nextId = NextId(rows)]
               [] req[r].op = "list" ->
                    [req EXCEPT ![r].pc = "done", ![r].rows = rows,
                                ![r].result =
                                    [NoResult EXCEPT
                                        !.success = TRUE,
                                        !.customers = Customers(rows),
                                        !.message = <<Len(Customers(rows)),
                                                      " cliente(s) encontrado(s)">>]]
               [] req[r].op \in {"update", "delete"} /\ found = 0 ->
                    [req EXCEPT ![r].pc = "done", ![r].rows = rows,
                                ![r].result =
                                    CatchResult(req[r].op,
                                                Error("Cliente nao encontrado"))]
               [] req[r].op = "update" /\ found # 0 ->
                    [req EXCEPT ![r].pc = "write", ![r].rows = rows,
                                ![r].idx = found,
                                ![r].raw = ApplyUpdate(rows[found], req[r].data)]
               [] req[r].op = "delete" /\ found # 0 ->
                    [req EXCEPT ![r].pc = "write", ![r].rows = rows,
                                ![r].idx = found, ![r].raw = rows[found]]
    /\ UNCHANGED <<env, header, sheet, started>>

GetRowsThrows(r) == Throws(r, "getRows")

\* await sheet.addRow({...}) completes.
AddRowOk(r) ==
    /\ req[r].pc = "write"
    /\ req[r].op = "register"
    /\ \E today \in Dates :
          LET raw == NewRow(req[r].data, req[r].nextId, today)
          IN  /\ sheet' = AddRow(sheet, raw)
              /\ req' = [req EXCEPT
                    ![r].pc = "done",
                    ![r].raw = raw,
                    ![r].result =
                        [NoResult EXCEPT
                            !.success = TRUE,
                            !.rowNumber = Len(sheet') + 1,
                            !.customerId = req[r].nextId,
                            !.message = <<"Cliente ", req[r].data.fullName,
                                          " cadastrado com sucesso!">>]]
    /\ UNCHANGED <<env, header, started>>

\* await rowToUpdate.save() completes.
SaveOk(r) ==
    /\ req[r].pc = "write"
    /\ req[r].op = "update"
    /\ sheet' = SaveRow(sheet, req[r].idx, req[r].raw)
    /\ req' = Finish(r, [NoResult EXCEPT
                            !.success = TRUE,
                            !.message = <<"Cliente atualizado com sucesso!">>])
    /\ UNCHANGED <<env, header, started>>

\* await rowToDelete.delete() completes.
DeleteOk(r) ==
    /\ req[r].pc = "write"
    /\ req[r].op = "delete"
    /\ sheet' = DeleteRow(sheet, req[r].idx)
    /\ req' = Finish(r, [NoResult EXCEPT
                            !.success = TRUE,
                            !.message = <<"Cliente ", req[r].raw["Nome"],
                                          " excluido com sucesso!">>])
    /\ UNCHANGED <<env, header, started>>

WriteThrows(r) == Throws(r, "write")

\* The caller takes the result.
Return(r) ==
    /\ req[r].pc = "done"
    /\ req' = [req EXCEPT ![r] = IdleReq]
    /\ UNCHANGED <<env, header, sheet, started>>

Step(r) ==
    \/ LoadInfoOk(r)
    \/ LoadInfoThrows(r)
    \/ GetSheetOk(r)
    \/ GetSheetThrows(r)
    \/ GetRowsOk(r)
    \/ GetRowsThrows(r)
    \/ AddRowOk(r)
    \/ SaveOk(r)
    \/ DeleteOk(r)
    \/ WriteThrows(r)
    \/ Return(r)

Next ==
    /\ \E r \in Reqs :
          \/ started < MaxOps /\ Call(r)
          \/ Step(r)
    /\ UNCHANGED <<reg, cust, call>>

Spec == Init /\ [][Next]_vars

\* One request at a time: a call starts only when no other is in flight.
SeqNext ==
    /\ \E r \in Reqs :
          \/ started < MaxSeqOps /\ (\A q \in Reqs : req[q].pc = "idle") /\ Call(r)
          \/ Step(r)
    /\ UNCHANGED <<reg, cust, call>>

\* Starting from an empty sheet.
SeqInit == Init /\ sheet = <<>>

SeqSpec == SeqInit /\ [][SeqNext]_vars

\* ---------------------------------------------- calls of lib/validations
Str_Cep8 == <<"0", "1", "0", "0", "1", "0", "0", "0">>

PhoneStrings == SeqsUpTo({"1", "-"}, MaxPhoneLen)

CepStrings == SeqsUpTo({"1", "-", "a"}, MaxCepLen)

\* n times the character c.
Repeat(c, n) == [k \in 1..n |-> c]

\* Names of letters alone, and with a space before, after or on both sides.
NameStrings ==
    {t \in {Repeat(" ", i) \o Repeat("a", j) \o Repeat(" ", k) :
                i \in 0..1, j \in 0..MaxNameLen, k \in 0..1} :
        Len(t) <= MaxNameLen}

EmailStrings == SeqsUpTo({"a", "@", ".", " "}, MaxEmailLen)

\* The k-th digit of t becomes the last digit of k: "1-11" is "1-23".
Numbered(t) ==
    [k \in 1..Len(t) |->
        IF IsDigit(t[k])
        THEN DigitChars[(Len(StripNonDigits(SubSeq(t, 1, k))) % 10) + 1]
        ELSE t[k]]

\* Arguments of the formatters: digits that differ, hyphens among them.
FormatStrings == {Numbered(t) : t \in PhoneStrings} \cup {Str_Cep8}

\* Postal codes of zeros and sevens.
CepDigitStrings == SeqsUpTo({"0", "7"}, MaxCepLen)

\* The function and the argument are chosen; nothing else is going on.
FnInit ==
    /\ env = [email |-> TRUE, key |-> TRUE, sheetId |-> TRUE]
    /\ header = "set"
    /\ sheet = <<>>
    /\ req = [r \in Reqs |-> IdleReq]
    /\ started = 0
    /\ reg = RegPageInit
    /\ cust = CustPageInit
    /\ \/ \E s \in PhoneStrings : call = [NoCall EXCEPT !.fn = "validatePhone", !.arg = s]
       \/ \E s \in CepStrings : call = [NoCall EXCEPT !.fn = "validateCEP", !.arg = s]
       \/ \E s \in NameStrings : call = [NoCall EXCEPT !.fn = "validateName", !.arg = s]
       \/ \E s \in EmailStrings : call = [NoCall EXCEPT !.fn = "validateEmail", !.arg = s]
       \/ \E s \in FormatStrings : call = [NoCall EXCEPT !.fn = "formatPhone", !.arg = s]
       \/ \E s \in FormatStrings \cup CepDigitStrings :
             call = [NoCall EXCEPT !.fn = "formatCEP", !.arg = s]

Returns(fn, value) ==
    /\ call.fn = fn
    /\ ~call.done
    /\ call' = [call EXCEPT !.done = TRUE, !.ret = value]
    /\ UNCHANGED <<env, header, sheet, req, started, reg, cust>>

CallValidatePhone == Returns("validatePhone", validatePhone(call.arg))

CallValidateCEP == Returns("validateCEP", validateCEP(call.arg))

CallValidateName == Returns("validateName", validateName(call.arg))

CallValidateEmail == Returns("validateEmail", validateEmail(call.arg))

CallFormatPhone == Returns("formatPhone", formatPhone(call.arg))

CallFormatCEP == Returns("formatCEP", formatCEP(call.arg))

\* The value formatPhone returned is given to formatPhone again.
FormatPhoneAgain ==
    /\ call.fn = "formatPhone"
    /\ call.done
    /\ call' = [NoCall EXCEPT !.fn = "formatPhone again", !.arg = call.ret]
    /\ UNCHANGED <<env, header, sheet, req, started, reg, cust>>

CallFormatPhoneAgain == Returns("formatPhone again", formatPhone(call.arg))

FnNext ==
    \/ CallValidatePhone
    \/ CallValidateCEP
    \/ CallValidateName
    \/ CallValidateEmail
    \/ CallFormatPhone
    \/ CallFormatCEP
    \/ FormatPhoneAgain
    \/ CallFormatPhoneAgain

FnSpec == FnInit /\ [][FnNext]_vars

\* The call request r awaits completes or throws.
Resolves(r) ==
    \/ LoadInfoOk(r)
    \/ LoadInfoThrows(r)
    \/ GetSheetOk(r)
    \/ GetSheetThrows(r)
    \/ GetRowsOk(r)
    \/ GetRowsThrows(r)
    \/ AddRowOk(r)
    \/ SaveOk(r)
    \/ DeleteOk(r)
    \/ WriteThrows(r)

\* The call a request awaits completes or throws; the pages do not change.
ServerStep(r) == Resolves(r) /\ UNCHANGED <<reg, cust, call>>

\* The customer sheet holds two rows; the credentials are configured, the
\* document id may be missing.
FairInit == Init /\ env.email /\ env.key /\ sheet = TwoRows

\* Every awaited call of the spreadsheet client eventually completes or throws.
FairSpec ==
    FairInit /\ [][Next]_vars /\ \A r \in Reqs : WF_vars(ServerStep(r))

\* ------------------------------------------------------------------ the pages
\* One browser tab: the registration page or the customer list page is
\* shown. Each server action a page calls runs as one of the requests.
Str_A == <<"A">>
Str_One == <<"1">>
Str_Cep9 == <<"0", "1", "0", "0", "1", "0", "0", "0", "0">>

\* generateCustomerCode()
GeneratedCodes == {Str_C9}

\* What the user types in the registration form.
FormInputs ==
    {<<"fullName", Str_Ana>>, <<"fullName", Str_A>>, <<"email", Str_Email>>,
     <<"phone", Str_Phone11>>, <<"zipCode", Str_One>>}

\* What the user types in the edit form, but for the postal code.
EditInputs == {<<"fullName", <<>>>>}

\* What the user types in the postal code input of the edit form.
CepInputs == {Str_Cep8, Str_Cep9}

\* The answers of the postal code service: an address, erro, or no answer.
CepAnswers == {"found", "erro", "failed"}

ValidatedFields == {"fullName", "email", "phone", "zipCode"}

\* validateField of both pages: the message, "" for null.
validateField(field, value) ==
    CASE field = "fullName" -> validateName(value).message
      [] field = "email" -> validateEmail(value).message
      [] field = "phone" -> validatePhone(value).message
      [] field = "zipCode" -> validateCEP(value).message
      [] OTHER -> ""

\* Mutant: the postal code is not validated on submit.
validateFormNoCep(data) ==
    [f \in {g \in ValidatedFields \ {"zipCode"} : validateField(g, data[g]) # ""} |->
        validateField(f, data[f])]

\* validateForm and validateEditForm: the errors object they build; the
\* form is valid when it has no key.
validateForm(data) ==
    [f \in {g \in ValidatedFields : validateField(g, data[g]) # ""} |->
        validateField(f, data[f])]

\* validateEditForm: the same four tests on editingCustomer.
validateEditForm(customer) ==
    [f \in {g \in ValidatedFields : validateField(g, customer[g]) # ""} |->
        validateField(f, customer[f])]

\* A request no page handler awaits and no action runs in.
FreeSlot(r) ==
    /\ req[r].pc = "idle"
    /\ reg.calls[r] = "none"
    /\ cust.calls[r] = "none"

Release(r) == req' = [req EXCEPT ![r] = IdleReq]

\* The pages may call a server action.
CanCall == started < MaxUiCalls

\* handleTestConnection up to await testConnection(): on mount and on the
\* button, which is disabled while a test runs.
HandleTestConnection(r) ==
    /\ reg.mounted
    /\ ~reg.isTestingConnection
    /\ FreeSlot(r)
    /\ CanCall
    /\ CallTest(r)
    /\ reg' = [reg EXCEPT !.isTestingConnection = TRUE,
                          !.connectionStatus = "unknown",
                          !.calls[r] = "test"]
    /\ UNCHANGED <<cust, call>>

\* handleTestConnection from the return of testConnection() on.
TestConnectionReturns(r) ==
    /\ reg.calls[r] = "test"
    /\ req[r].pc = "done"
    /\ reg' = [reg EXCEPT !.isTestingConnection = FALSE,
                          !.connectionStatus =
                              IF req[r].result.success THEN "connected" ELSE "error",
                          !.calls[r] = "none"]
    /\ Release(r)
    /\ UNCHANGED <<env, header, sheet, started, cust, call>>

\* handleInputChange(field, value)
HandleInputChange(field, value) ==
    /\ reg.mounted
    /\ LET processedValue ==
               IF field = "phone" THEN formatPhone(value)
               ELSE IF field = "zipCode" THEN formatCEP(value)
               ELSE value
       IN  reg' = [reg EXCEPT
                !.formData[field] = processedValue,
                !.validationErrors =
                    IF field = "isCompleted" THEN @
                    ELSE [f \in DOMAIN @ \cup {field} |->
                             IF f = field THEN validateField(field, processedValue)
                             ELSE @[f]]]
    /\ UNCHANGED <<env, header, sheet, req, started, cust, call>>

\* The argument of registerCustomer: { customerCode, ...formData }.
RegisterData(code, data) ==
    [f \in Fields |-> IF f = "customerCode" THEN code ELSE data[f]]

\* Mutant: the connection status is not looked at.
HandleSubmitUnchecked(r) ==
    /\ reg.mounted
    /\ ~reg.isLoading
    /\ IF DOMAIN validateForm(reg.formData) # {}
       THEN /\ reg' = [reg EXCEPT !.validationErrors = validateForm(reg.formData)]
            /\ UNCHANGED <<req, started>>
       ELSE \E code \in GeneratedCodes :
               /\ FreeSlot(r)
               /\ CanCall
               /\ Begin(r, "register", 0, RegisterData(code, reg.formData))
               /\ reg' = [reg EXCEPT !.validationErrors = NoErrors,
                                     !.isLoading = TRUE,
                                     !.customerCode = code,
                                     !.calls[r] = "submit"]
    /\ UNCHANGED <<env, header, sheet, cust, call>>

\* handleSubmit up to await registerCustomer(); the submit button is
\* disabled while a registration runs.
HandleSubmit(r) ==
    /\ reg.mounted
    /\ ~reg.isLoading
    /\ IF reg.connectionStatus # "connected"
       THEN UNCHANGED <<req, started, reg>>
       ELSE IF DOMAIN validateForm(reg.formData) # {}
       THEN /\ reg' = [reg EXCEPT !.validationErrors = validateForm(reg.formData)]
            /\ UNCHANGED <<req, started>>
       ELSE \E code \in GeneratedCodes :
               /\ FreeSlot(r)
               /\ CanCall
               /\ Begin(r, "register", 0, RegisterData(code, reg.formData))
               /\ reg' = [reg EXCEPT !.validationErrors = NoErrors,
                                     !.isLoading = TRUE,
                                     !.customerCode = code,
                                     !.calls[r] = "submit"]
    /\ UNCHANGED <<env, header, sheet, cust, call>>

\* handleSubmit from the return of registerCustomer() on.
SubmitReturns(r) ==
    /\ reg.calls[r] = "submit"
    /\ req[r].pc = "done"
    /\ reg' = IF req[r].result.success
              THEN [reg EXCEPT !.formData = InitialFormData,
                               !.validationErrors = NoErrors,
                               !.isLoading = FALSE,
                               !.calls[r] = "none"]
              ELSE [reg EXCEPT !.isLoading = FALSE, !.calls[r] = "none"]
    /\ Release(r)
    /\ UNCHANGED <<env, header, sheet, started, cust, call>>

\* loadCustomers up to await getCustomers(): on mount and on the button.
LoadCustomers(r) ==
    /\ cust.mounted
    /\ FreeSlot(r)
    /\ CanCall
    /\ Begin(r, "list", 0, EmptyData)
    /\ cust' = [cust EXCEPT !.isLoading = TRUE, !.calls[r] = "load"]
    /\ UNCHANGED <<reg, call>>

\* loadCustomers from the return of getCustomers() on; after a save, the
\* finally block of handleSaveEdit follows.
LoadReturns(r) ==
    /\ cust.calls[r] \in {"load", "saveReload", "deleteReload"}
    /\ req[r].pc = "done"
    /\ cust' = [cust EXCEPT
            !.customers = IF req[r].result.success
                          THEN req[r].result.customers ELSE @,
            !.isLoading = FALSE,
            !.isUpdating = IF cust.calls[r] = "saveReload" THEN FALSE ELSE @,
            !.calls[r] = "none"]
    /\ Release(r)
    /\ UNCHANGED <<env, header, sheet, started, reg, call>>

\* handleEdit(customer): the button of a card that is not being edited.
HandleEdit(i) ==
    /\ cust.mounted
    /\ i \in 1..Len(cust.customers)
    /\ ~(cust.editing /\ cust.editingCustomer.id = cust.customers[i].id)
    /\ cust' = [cust EXCEPT !.editing = TRUE,
                            !.editingCustomer = cust.customers[i],
                            !.validationErrors = NoErrors]
    /\ UNCHANGED <<env, header, sheet, req, started, reg, call>>

\* The edit form is shown in a card of the customer being edited.
EditFormShown ==
    /\ cust.mounted
    /\ cust.editing
    /\ \E i \in 1..Len(cust.customers) :
          cust.customers[i].id = cust.editingCustomer.id

\* handleCancelEdit: the button is disabled while a save runs.
HandleCancelEdit ==
    /\ EditFormShown
    /\ ~cust.isUpdating
    /\ cust' = [cust EXCEPT !.editing = FALSE,
                            !.editingCustomer = NullCustomer,
                            !.validationErrors = NoErrors]
    /\ UNCHANGED <<env, header, sheet, req, started, reg, call>>

\* handleFieldChange(field, value)
HandleFieldChange(field, value) ==
    /\ EditFormShown
    /\ cust' = [cust EXCEPT
            !.editingCustomer[field] = value,
            !.validationErrors =
                IF field = "isCompleted" THEN @
                ELSE [f \in DOMAIN @ \cup {field} |->
                         IF f = field THEN validateField(field, value) ELSE @[f]]]
    /\ UNCHANGED <<env, header, sheet, req, started, reg, call>>

\* value.replace(/\D/g, "").replace(/(\d{5})(\d{3})/, "$1-$2")
FormatCepBasic(value) ==
    LET digits == StripNonDigits(value)
    IN  IF Len(digits) >= 8
        THEN SubSeq(digits, 1, 5) \o <<"-">> \o SubSeq(digits, 6, Len(digits))
        ELSE digits

\* handleCEPChange(value), with consultarCEP up to its fetch when the
\* postal code has eight digits.
HandleCEPChange(value) ==
    /\ EditFormShown
    /\ LET formattedCEP == FormatCepBasic(value)
           consults == Len(StripNonDigits(formattedCEP)) = 8
       IN  /\ consults => cust.lookups < MaxLookups
           /\ cust' = [cust EXCEPT
                  !.editingCustomer.zipCode = formattedCEP,
                  !.isLoadingCEP = IF consults THEN TRUE ELSE @,
                  !.lookups = IF consults THEN @ + 1 ELSE @]
    /\ UNCHANGED <<env, header, sheet, req, started, reg, call>>

\* consultarCEP from the answer of the postal code service on.
CepAnswered(answer) ==
    /\ cust.lookups > 0
    /\ cust' = [cust EXCEPT
            !.editingCustomer =
                IF answer = "found" /\ cust.editing
                THEN [@ EXCEPT !.address = Str_Rua, !.city = <<>>, !.state = <<>>]
                ELSE @,
            !.isLoadingCEP = FALSE,
            !.lookups = @ - 1]
    /\ UNCHANGED <<env, header, sheet, req, started, reg, call>>

\* The second argument of updateCustomer in handleSaveEdit.
UpdateData(customer) ==
    [f \in Fields \ {"customerCode"} |-> customer[f]]

\* handleSaveEdit up to await updateCustomer(); the save button is disabled
\* while a save runs.
HandleSaveEdit(r) ==
    /\ EditFormShown
    /\ ~cust.isUpdating
    /\ IF DOMAIN validateEditForm(cust.editingCustomer) # {}
       THEN /\ cust' = [cust EXCEPT
                   !.validationErrors = validateEditForm(cust.editingCustomer)]
            /\ UNCHANGED <<req, started>>
       ELSE /\ FreeSlot(r)
            /\ CanCall
            /\ Begin(r, "update", cust.editingCustomer.id,
                     UpdateData(cust.editingCustomer))
            /\ cust' = [cust EXCEPT !.validationErrors = NoErrors,
                                    !.isUpdating = TRUE,
                                    !.calls[r] = "save"]
    /\ UNCHANGED <<env, header, sheet, reg, call>>

\* handleSaveEdit from the return of updateCustomer() on: after a success
\* the form is closed and loadCustomers is awaited.
SaveReturns(r) ==
    /\ cust.calls[r] = "save"
    /\ req[r].pc = "done"
    /\ IF req[r].result.success
       THEN /\ CanCall
            /\ started' = started + 1
            /\ req' = [req EXCEPT ![r] = [IdleReq EXCEPT !.pc = "loadInfo",
                                                         !.op = "list"]]
            /\ cust' = [cust EXCEPT !.editing = FALSE,
                                    !.editingCustomer = NullCustomer,
                                    !.isLoading = TRUE,
                                    !.calls[r] = "saveReload"]
       ELSE /\ Release(r)
            /\ cust' = [cust EXCEPT !.isUpdating = FALSE, !.calls[r] = "none"]
            /\ UNCHANGED started
    /\ UNCHANGED <<env, header, sheet, reg, call>>

\* The user follows the link to the other page once nothing is awaited: the
\* page left is unmounted and the page entered starts from its initial state.
Navigate ==
    /\ reg.calls = NoCalls
    /\ cust.calls = NoCalls
    /\ cust.lookups = 0
    /\ reg' = [RegPageInit EXCEPT !.mounted = ~reg.mounted]
    /\ cust' = [CustPageInit EXCEPT !.mounted = ~cust.mounted]
    /\ UNCHANGED <<env, header, sheet, req, started, call>>

\* The configured document with two rows, and one of the pages just opened.
UiInit ==
    /\ env = [email |-> TRUE, key |-> TRUE, sheetId |-> TRUE]
    /\ header = "set"
    /\ sheet = TwoRows
    /\ req = [r \in Reqs |-> IdleReq]
    /\ started = 0
    /\ \E m \in BOOLEAN :
          /\ reg = [RegPageInit EXCEPT !.mounted = m]
          /\ cust = [CustPageInit EXCEPT !.mounted = ~m]
    /\ call = NoCall

UiNext ==
    \/ \E r \in Reqs : ServerStep(r)
    \/ \E r \in Reqs :
          \/ HandleTestConnection(r)
          \/ TestConnectionReturns(r)
          \/ HandleSubmit(r)
          \/ SubmitReturns(r)
          \/ LoadCustomers(r)
          \/ LoadReturns(r)
          \/ HandleSaveEdit(r)
          \/ SaveReturns(r)
    \/ \E input \in FormInputs : HandleInputChange(input[1], input[2])
    \/ HandleInputChange("isCompleted", TRUE)
    \/ \E i \in 1..Len(cust.customers) : HandleEdit(i)
    \/ HandleCancelEdit
    \/ \E input \in EditInputs : HandleFieldChange(input[1], input[2])
    \/ \E value \in CepInputs : HandleCEPChange(value)
    \/ \E answer \in CepAnswers : CepAnswered(answer)
    \/ Navigate

UiSpec == UiInit /\ [][UiNext]_vars

\* handleDelete(customer): the button of a card that is not being edited,
\* in the list shown once loading is over. The prompt is a toast holding
\* the customer in the closures of its two buttons.
HandleDelete(i) ==
    /\ cust.mounted
    /\ ~cust.isLoading
    /\ i \in 1..Len(cust.customers)
    /\ ~(cust.editing /\ cust.editingCustomer.id = cust.customers[i].id)
    /\ cust' = [cust EXCEPT !.customerToDelete = <<cust.customers[i]>>,
                            !.prompts = @ \cup {cust.customers[i]}]
    /\ UNCHANGED <<env, header, sheet, req, started, reg, call>>

\* Mutant: Cancelar runs performDelete as Confirmar does.
CancelClickDeletes(customer) ==
    /\ customer \in cust.prompts
    /\ \E r \in Reqs :
          /\ FreeSlot(r)
          /\ CanCall
          /\ Begin(r, "delete", customer.id, EmptyData)
          /\ cust' = [cust EXCEPT !.customerToDelete = <<>>, !.calls[r] = "delete"]
    /\ UNCHANGED <<env, header, sheet, reg, call>>

\* onClick of Cancelar in the prompt for the customer.
CancelClick(customer) ==
    /\ customer \in cust.prompts
    /\ cust' = [cust EXCEPT !.customerToDelete = <<>>]
    /\ UNCHANGED <<env, header, sheet, req, started, reg, call>>

\* onClick of Confirmar in the prompt for the customer: performDelete up to
\* await deleteCustomer().
ConfirmClick(customer, r) ==
    /\ customer \in cust.prompts
    /\ FreeSlot(r)
    /\ CanCall
    /\ Begin(r, "delete", customer.id, EmptyData)
    /\ cust' = [cust EXCEPT !.customerToDelete = <<>>, !.calls[r] = "delete"]
    /\ UNCHANGED <<env, header, sheet, reg, call>>

\* The prompt leaves the screen: its ten seconds are over, or the toasts
\* shown after it have taken its place.
PromptCloses(customer) ==
    /\ customer \in cust.prompts
    /\ cust' = [cust EXCEPT !.prompts = @ \ {customer}]
    /\ UNCHANGED <<env, header, sheet, req, started, reg, call>>

\* performDelete from the return of deleteCustomer() on: after a success
\* loadCustomers is awaited.
DeleteReturns(r) ==
    /\ cust.calls[r] = "delete"
    /\ req[r].pc = "done"
    /\ IF req[r].result.success
       THEN /\ CanCall
            /\ started' = started + 1
            /\ req' = [req EXCEPT ![r] = [IdleReq EXCEPT !.pc = "loadInfo",
                                                         !.op = "list"]]
            /\ cust' = [cust EXCEPT !.isLoading = TRUE,
                                    !.calls[r] = "deleteReload"]
       ELSE /\ Release(r)
            /\ cust' = [cust EXCEPT !.calls[r] = "none"]
            /\ UNCHANGED started
    /\ UNCHANGED <<env, header, sheet, reg, call>>

\* The customer list page, opened on the configured document with two rows.
ListPageInit ==
    /\ env = [email |-> TRUE, key |-> TRUE, sheetId |-> TRUE]
    /\ header = "set"
    /\ sheet = TwoRows
    /\ req = [r \in Reqs |-> IdleReq]
    /\ started = 0
    /\ reg = RegPageInit
    /\ cust = [CustPageInit EXCEPT !.mounted = TRUE]
    /\ call = NoCall

ListPageNext ==
    \/ \E r \in Reqs : ServerStep(r)
    \/ \E r \in Reqs :
          \/ LoadCustomers(r)
          \/ LoadReturns(r)
          \/ DeleteReturns(r)
    \/ \E i \in 1..Len(cust.customers) : HandleEdit(i) \/ HandleDelete(i)
    \/ HandleCancelEdit
    \/ \E customer \in cust.prompts :
          \/ CancelClick(customer)
          \/ \E r \in Reqs : ConfirmClick(customer, r)
          \/ PromptCloses(customer)

ListPageSpec == ListPageInit /\ [][ListPageNext]_vars

\* ------------------------------------------------- a worksheet edited by hand
\* The worksheet is an ordinary spreadsheet: its cells can hold anything a
\* person typed. A trailing empty cell is read as a missing one.
Str_Seven == <<"7">>
IdCells ==
    {<<"1">>, Str_Seven, <<"0">>, <<>>, <<"x">>, <<" ", "7">>, <<"7", "x">>,
     <<"-", "1">>}

DoneCells ==
    {<<"S">>, <<"N">>, <<>>, <<"s">>, <<"S", " ">>, <<"S", "i", "m">>}

StoredRow(idCell, doneCell) ==
    [NewRow(RegAna, 1, Str_Date) EXCEPT !["ID"] = idCell, !["Realizado"] = doneCell]

StoredRows ==
    {StoredRow(i, <<"S">>) : i \in IdCells} \cup
    {StoredRow(<<"1">>, d) : d \in DoneCells}

ListInit ==
    /\ env = [email |-> TRUE, key |-> TRUE, sheetId |-> TRUE]
    /\ header = "set"
    /\ sheet \in SeqsUpTo(StoredRows, MaxListRows)
    /\ req = [r \in Reqs |-> IdleReq]
    /\ started = 0
    /\ reg = RegPageInit
    /\ cust = CustPageInit
    /\ call = NoCall

\* The steps of getCustomers.
ListStep(r) ==
    \/ LoadInfoOk(r)
    \/ LoadInfoThrows(r)
    \/ GetSheetOk(r)
    \/ GetSheetThrows(r)
    \/ GetRowsOk(r)
    \/ GetRowsThrows(r)
    \/ Return(r)

ListNext ==
    /\ \E r \in Reqs :
          \/ started < MaxListOps /\ CallList(r)
          \/ ListStep(r)
    /\ UNCHANGED <<reg, cust, call>>

ListSpec == ListInit /\ [][ListNext]_vars

\* ------------------------------------- a listed record is updated or deleted
\* Row k of a worksheet edited by hand; its customer code tells where it
\* was stored at the start.
TableRow(k, idCell) ==
    [NewRow(RegAna, 1, Str_Date) EXCEPT
        !["ID"] = idCell,
        !["Codigo do cliente"] = <<"C">> \o NatToStr(k)]

TableSheets ==
    {[k \in 1..Len(cells) |-> TableRow(k, cells[k])] :
        cells \in SeqsUpTo(IdCells, MaxTableRows)}

TableInit ==
    /\ env = [email |-> TRUE, key |-> TRUE, sheetId |-> TRUE]
    /\ header = "set"
    /\ sheet \in TableSheets
    /\ req = [r \in Reqs |-> IdleReq]
    /\ started = 0
    /\ reg = RegPageInit
    /\ cust = CustPageInit
    /\ call = NoCall

\* What the edit form sends for the card it was opened on.
TableUpdate == [fullName |-> Str_Bea, isCompleted |-> TRUE]

\* The caller holds the customers getCustomers returned, and calls
\* updateCustomer or deleteCustomer with the id of one of them.
CallListed(r) ==
    \E q \in Reqs \ {r} :
        /\ req[q].op = "list"
        /\ req[q].pc = "done"
        /\ req[q].result.success
        /\ \E k \in 1..Len(req[q].result.customers) :
              \/ Begin(r, "update", req[q].result.customers[k].id, TableUpdate)
              \/ Begin(r, "delete", req[q].result.customers[k].id, EmptyData)

\* The steps of getCustomers, updateCustomer and deleteCustomer.
TableStep(r) ==
    \/ LoadInfoOk(r)
    \/ LoadInfoThrows(r)
    \/ GetSheetOk(r)
    \/ GetSheetThrows(r)
    \/ GetRowsOk(r)
    \/ GetRowsThrows(r)
    \/ SaveOk(r)
    \/ DeleteOk(r)
    \/ WriteThrows(r)

\* One getCustomers, then one call for a record of its result.
TableNext ==
    /\ \E r \in Reqs :
          \/ (\A q \in Reqs : req[q].pc = "idle") /\ CallList(r)
          \/ CallListed(r)
          \/ TableStep(r)
    /\ UNCHANGED <<reg, cust, call>>

TableSpec == TableInit /\ [][TableNext]_vars

\* ------------------------------------------------------------------- claims
\* The step of request r in which its addRow / save / delete completes.
Registered(r) == AddRowOk(r)

Saved(r) == SaveOk(r)

Deleted(r) == DeleteOk(r)

\* The row the request located is still stored where it was read.
StillThere(r) ==
    /\ req[r].idx \in 1..Len(sheet)
    /\ sheet[req[r].idx] = req[r].rows[req[r].idx]

\* The first message the validators give for the data, "" when all pass.
FirstInvalid(data) ==
    IF ~validateName(data.fullName).isValid THEN validateName(data.fullName).message
    ELSE IF ~validateEmail(data.email).isValid THEN validateEmail(data.email).message
    ELSE IF ~validatePhone(data.phone).isValid THEN validatePhone(data.phone).message
    ELSE IF ~validateCEP(data.zipCode).isValid THEN validateCEP(data.zipCode).message
    ELSE ""

\* C1 (as claimed): a registerCustomer call whose name, email, phone or
\* non-empty postal code fails its validator never succeeds and never changes
\* the stored rows; when it ends, its error is the first failing field's
\* message (or that of a call that threw).
C1_RegisterRejectsInvalid ==
    [][\A r \in Reqs :
          (req[r].op = "register" /\ FirstInvalid(req[r].data) # "" /\ req'[r] # req[r])
          => /\ sheet' = sheet
             /\ req'[r].pc = "done" =>
                   /\ ~req'[r].result.success
                   /\ \/ req'[r].result.error = FirstInvalid(req[r].data)
                      \/ Throws(r, req[r].pc)]_vars

\* C2 (as claimed): no two stored rows have identifier cells that parse to
\* the same number.
C2_UniqueIds ==
    \A i, j \in 1..Len(sheet) :
        (i # j /\ ~ParseInt(sheet[i]["ID"]).nan /\ ~ParseInt(sheet[j]["ID"]).nan)
        => ParseInt(sheet[i]["ID"]).val # ParseInt(sheet[j]["ID"]).val

\* C3: a register whose addRow completes appends exactly one row at the end,
\* leaves the rows before it as they were, stores in its ID cell the number of
\* rows it had read plus one, and returns that number as customerId.
C3_RegisterAppends ==
    [][\A r \in Reqs :
          Registered(r)
          => /\ Len(sheet') = Len(sheet) + 1
             /\ SubSeq(sheet', 1, Len(sheet)) = sheet
             /\ ParsesTo(sheet'[Len(sheet')]["ID"], Len(req[r].rows) + 1)
             /\ req'[r].result.success
             /\ req'[r].result.customerId = Len(req[r].rows) + 1]_vars

C3_Witness ==
    \E r \in Reqs :
        /\ req[r].op = "register" /\ req[r].pc = "done" /\ req[r].result.success
        /\ req[r].result.customerId = 3
        /\ Len(sheet) = 3
        /\ SubSeq(sheet, 1, 2) = TwoRows

\* Two rows of the sheet whose identifier cells both parse to n.
StoredTwice(rows, n) ==
    \E i, j \in 1..Len(rows) :
        i # j /\ ParsesTo(rows[i]["ID"], n) /\ ParsesTo(rows[j]["ID"], n)

C5_NotFound ==
    [][\A r \in Reqs :
          (/\ GetRowsOk(r)
           /\ req[r].op \in {"update", "delete"}
           /\ \A i \in 1..Len(sheet) : ~ParsesTo(sheet[i]["ID"], req[r].id))
          => /\ req'[r].pc = "done"
             /\ ~req'[r].result.success
             /\ req'[r].result.error = "Cliente nao encontrado"
             /\ sheet' = sheet]_vars

C5_Witness ==
    \E r \in Reqs :
        /\ req[r].op \in {"update", "delete"} /\ req[r].pc = "done"
        /\ ~req[r].result.success
        /\ req[r].result.error = "Cliente nao encontrado"
        /\ req[r].rows = sheet
        /\ Len(sheet) > 0

\* The column updateCustomer writes for a field of partialData.
ColumnOf(f) ==
    CASE f = "customerCode" -> "Codigo do cliente"
      [] f = "fullName" -> "Nome"
      [] f = "email" -> "Email"
      [] f = "phone" -> "Telefone"
      [] f = "address" -> "Endereco"
      [] f = "city" -> "Cidade"
      [] f = "state" -> "Estado"
      [] f = "zipCode" -> "CEP"
      [] f = "acquisitionSource" -> "Fonte de Aquisicao"
      [] f = "serviceType" -> "Tipo de Servico"
      [] f = "isCompleted" -> "Realizado"
      [] f = "observations" -> "Observacoes"

\* The cell an update stores for a field: the phone formatted, the completion
\* flag as "S" or "N", any other value as given.
CellOf(f, data) ==
    IF f = "isCompleted" THEN (IF data[f] THEN <<"S">> ELSE <<"N">>)
    ELSE IF f = "phone" THEN formatPhone(data[f])
    ELSE data[f]

\* After the save of r, the located row holds the given value in the column
\* of every field of fs that partialData has, every other column of that row
\* is as before, and so is every other row.
OverwritesExactly(r, fs) ==
    LET n == req[r].idx
        given == fs \cap DOMAIN req[r].data
    IN  /\ req'[r].result.success
        /\ Len(sheet') = Len(sheet)
        /\ \A f \in given : sheet'[n][ColumnOf(f)] = CellOf(f, req[r].data)
        /\ \A c \in Columns \ {ColumnOf(f) : f \in given} : sheet'[n][c] = sheet[n][c]
        /\ \A i \in 1..Len(sheet) : i # n => sheet'[i] = sheet[i]

C9_FailureResult ==
    [][\A r \in Reqs :
          (LoadInfoThrows(r) \/ GetSheetThrows(r) \/ GetRowsThrows(r) \/ WriteThrows(r))
          => /\ req'[r].pc = "done"
             /\ ~req'[r].result.success
             /\ req'[r].result.error # ""
             /\ req'[r].result.customers = <<>>
             /\ sheet' = sheet]_vars

C9_Witness ==
    \E r, q \in Reqs :
        /\ req[r].op = "register" /\ req[r].pc = "done" /\ ~req[r].result.success
        /\ req[r].nextId > 0
        /\ req[r].result.error = "Erro desconhecido ao cadastrar cliente"
        /\ req[q].op = "list" /\ req[q].pc = "done" /\ ~req[q].result.success
        /\ req[q].result.error = "BackendError"
        /\ req[q].result.customers = <<>>
        /\ sheet = TwoRows

RECURSIVE DigitCount(_)
DigitCount(s) ==
    IF Len(s) = 0 THEN 0
    ELSE (IF IsDigit(s[1]) THEN 1 ELSE 0) + DigitCount(Tail(s))

\* "(XX) XXXX-XXXX" or "(XX) XXXXX-XXXX".
IsCanonicalPhone(s) ==
    /\ Len(s) \in {14, 15}
    /\ s[1] = "(" /\ s[4] = ")" /\ s[5] = " " /\ s[Len(s) - 4] = "-"
    /\ \A k \in (1..Len(s)) \ {1, 4, 5, Len(s) - 4} : IsDigit(s[k])

PhoneStoredFormatted(cell, phone) ==
    /\ cell = formatPhone(phone)
    /\ DigitCount(phone) \in {10, 11} =>
          /\ IsCanonicalPhone(cell)
          /\ StripNonDigits(cell) = StripNonDigits(phone)

Listed(r) == GetRowsOk(r) /\ req[r].op = "list"

\* C15: a successful List returns one record per stored row, in row order,
\* reports the number of stored rows, and no step of a List changes the rows.
C15_ListInRowOrder ==
    [][\A r \in Reqs :
          /\ Listed(r) =>
                LET res == req'[r].result
                IN  /\ res.success
                    /\ Len(res.customers) = Len(sheet)
                    /\ \A i \in 1..Len(sheet) :
                          /\ res.customers[i].customerCode =
                                sheet[i]["Codigo do cliente"]
                          /\ res.customers[i].fullName = sheet[i]["Nome"]
                          /\ res.customers[i].registrationDate =
                                sheet[i]["Data de Registro"]
                    /\ res.message = <<Len(sheet), " cliente(s) encontrado(s)">>
          /\ (req[r].op = "list" /\ Step(r)) => sheet' = sheet]_vars

\* A List of the rows of Ana and Bo has returned them in that order.
C15_Witness ==
    \E r \in Reqs :
        /\ req[r].op = "list" /\ req[r].pc = "done" /\ req[r].result.success
        /\ Len(req[r].result.customers) = 2
        /\ req[r].result.customers[1].fullName = Str_Ana
        /\ req[r].result.customers[2].fullName = Str_Bo
        /\ sheet = req[r].rows

\* Update q completed its save before update r saves: both read the same
\* rows, both located the same row, and q's save is the only write since.
SavedBefore(q, r) ==
    /\ q # r
    /\ req[q].op = "update" /\ req[q].pc = "done" /\ req[q].result.success
    /\ req[q].id = req[r].id
    /\ req[q].rows = req[r].rows
    /\ req[q].idx = req[r].idx
    /\ sheet = SaveRow(req[q].rows, req[q].idx, req[q].raw)

\* C17: when two Updates of one identifier have both read the rows before
\* either saved, the row stored after the second save is the second one's
\* row object: the columns only the first one changed are back at the value
\* read, and the second save succeeds like the first.
C17_LastWriteWins ==
    [][\A r, q \in Reqs :
          (Saved(r) /\ SavedBefore(q, r)) =>
              /\ sheet'[req[r].idx] = req[r].raw
              /\ req[r].raw = ApplyUpdate(req[r].rows[req[r].idx], req[r].data)
              /\ \A f \in (DOMAIN req[q].data) \ (DOMAIN req[r].data) :
                    sheet'[req[r].idx][ColumnOf(f)] =
                        req[r].rows[req[r].idx][ColumnOf(f)]
              /\ req'[r].result.success
              /\ req'[q] = req[q]]_vars

\* Both updates of row 1 are done: the first set the name, the second the
\* phone, and the stored row has the second one's phone and the name read.
C17_Witness ==
    \E r, q \in Reqs :
        /\ q # r
        /\ req[r].op = "update" /\ req[r].pc = "done" /\ req[r].result.success
        /\ req[q].op = "update" /\ req[q].pc = "done" /\ req[q].result.success
        /\ req[r].id = req[q].id /\ req[r].rows = req[q].rows
        /\ Given(req[q].data, "fullName") /\ ~Given(req[r].data, "fullName")
        /\ req[q].raw["Nome"] # req[q].rows[req[q].idx]["Nome"]
        /\ sheet = SaveRow(req[r].rows, req[r].idx, req[r].raw)
        /\ sheet[req[r].idx]["Nome"] = req[r].rows[req[r].idx]["Nome"]
        /\ sheet[req[r].idx]["Telefone"] # req[r].rows[req[r].idx]["Telefone"]

CrudOps == {"register", "list", "update", "delete"}

\* How far along its awaits a request is.
Stage(pc) ==
    CASE pc = "idle" -> 0
      [] pc = "loadInfo" -> 1
      [] pc = "getSheet" -> 2
      [] pc = "getRows" -> 3
      [] pc = "write" -> 4
      [] pc = "done" -> 5

Returned(r) ==
    /\ req[r].pc = "done"
    /\ req[r].result.success \/ req[r].result.error # ""

\* C18: a started Register, List, Update or Delete reaches its return, with a
\* success result or a failure result carrying an error text, when every call
\* it awaits completes or throws; and no step takes a request back to an
\* earlier await: a call that throws ends the operation with its failure.
C18_EventuallyReturns ==
    /\ \A r \in Reqs :
          (req[r].op \in CrudOps /\ req[r].pc \notin {"idle", "done"})
              ~> (req[r].op \in CrudOps /\ Returned(r))
    /\ [][\A r \in Reqs :
             /\ \/ req'[r] = req[r]
                \/ Stage(req'[r].pc) > Stage(req[r].pc)
                \/ req[r].pc = "done" /\ req'[r] = IdleReq
             /\ \A at \in {"loadInfo", "getSheet", "getRows", "write"} :
                   Throws(r, at) =>
                       req'[r].pc = "done" /\ ~req'[r].result.success]_vars

\* A register whose addRow threw has returned its failure, and a list has
\* returned its records.
C18_Witness ==
    \E r, q \in Reqs :
        /\ req[r].op = "register" /\ req[r].pc = "done"
        /\ ~req[r].result.success /\ req[r].nextId > 0
        /\ req[q].op = "list" /\ req[q].pc = "done" /\ req[q].result.success

\* Request r is a List that has returned its records.
ListDone(r) == req[r].op = "list" /\ req[r].pc = "done" /\ req[r].result.success

IsExactlyS(cell) == Len(cell) = 1 /\ cell[1] = "S"

\* C13: in the records a List returns, the completion flag of a record is
\* true exactly when the Realizado cell of its row is the one character "S".
C13_CompletedIffS ==
    \A r \in Reqs :
        ListDone(r) =>
            \A i \in 1..Len(req[r].rows) :
                req[r].result.customers[i].isCompleted
                    <=> IsExactlyS(req[r].rows[i]["Realizado"])

\* A List has returned a row marked "S" as completed and a row marked "s"
\* as not completed.
C13_Witness ==
    \E r \in Reqs :
        /\ ListDone(r)
        /\ Len(req[r].rows) = 2
        /\ req[r].rows[1]["Realizado"] = <<"s">>
        /\ ~req[r].result.customers[1].isCompleted
        /\ req[r].rows[2]["Realizado"] = <<"S">>
        /\ req[r].result.customers[2].isCompleted

\* C14 as stated: the identifier of the record at zero-based position i is
\* the integer the ID cell parses to when it parses, and i + 1 when the cell
\* is absent or does not parse.
C14_IdParsedOrPosition ==
    \A r \in Reqs :
        ListDone(r) =>
            \A i \in 1..Len(req[r].rows) :
                LET parsed == ParseInt(req[r].rows[i]["ID"])
                IN  /\ ~parsed.nan => req[r].result.customers[i].id = parsed.val
                    /\ parsed.nan => req[r].result.customers[i].id = i

\* C14, amended: the identifier is the integer the ID cell parses to when
\* that integer is not zero, and i + 1 when the cell is absent, does not
\* parse, or parses to zero.
C14_IdParsedNonZeroOrPosition ==
    \A r \in Reqs :
        ListDone(r) =>
            \A i \in 1..Len(req[r].rows) :
                LET parsed == ParseInt(req[r].rows[i]["ID"])
                IN  /\ (~parsed.nan /\ parsed.val # 0) =>
                          req[r].result.customers[i].id = parsed.val
                    /\ (parsed.nan \/ parsed.val = 0) =>
                          req[r].result.customers[i].id = i

\* A List has returned identifier 7 for a first row whose ID cell is "7x",
\* and identifier 2 for a second row whose ID cell is "0".
C14_Witness ==
    \E r \in Reqs :
        /\ ListDone(r)
        /\ Len(req[r].rows) = 2
        /\ req[r].rows[1]["ID"] = <<"7", "x">>
        /\ req[r].result.customers[1].id = 7
        /\ req[r].rows[2]["ID"] = <<"0">>
        /\ req[r].result.customers[2].id = 2

CalledAndReturned(fn) == call.fn = fn /\ call.done

\* C19: validatePhone(s) is valid exactly when s has 10 or 11 digit
\* characters; the empty string and every other digit count are invalid.
C19_PhoneValidIff10Or11Digits ==
    CalledAndReturned("validatePhone") =>
        (call.ret.isValid <=> DigitCount(call.arg) \in {10, 11})

\* validatePhone has accepted a 12-character string holding 11 digits.
C19_Witness ==
    /\ CalledAndReturned("validatePhone")
    /\ Len(call.arg) = 12
    /\ DigitCount(call.arg) = 11
    /\ call.ret.isValid

\* Five digits, an optional hyphen, three digits, and nothing else.
IsCepShape(s) ==
    LET digits == IF Len(s) = 9 /\ s[6] = "-"
                  THEN SubSeq(s, 1, 5) \o SubSeq(s, 7, 9)
                  ELSE s
    IN  Len(digits) = 8 /\ DigitCount(digits) = 8

\* C20: validateCEP(s) is valid exactly when s is empty or is five digits,
\* an optional hyphen and three digits, with nothing before or after.
C20_CepValidIffEmptyOrShape ==
    CalledAndReturned("validateCEP") =>
        (call.ret.isValid <=> (call.arg = <<>> \/ IsCepShape(call.arg)))

\* validateCEP has accepted a hyphenated postal code.
C20_Witness ==
    /\ CalledAndReturned("validateCEP")
    /\ Len(call.arg) = 9
    /\ call.arg[6] = "-"
    /\ call.ret.isValid

\* The four validators accept the name, email, phone and postal code of d.
AllValid(d) ==
    /\ validateName(d.fullName).isValid
    /\ validateEmail(d.email).isValid
    /\ validatePhone(d.phone).isValid
    /\ validateCEP(d.zipCode).isValid

\* Request r starts running action o in this step.
Starts(r, o) == req[r].pc = "idle" /\ req'[r].pc # "idle" /\ req'[r].op = o

\* C11: registerCustomer starts only from a registration form, and
\* updateCustomer only from an edit form, whose current name, email, phone
\* and postal code pass the four validators, and with those values; a submit
\* or a save of a form that does not pass starts no request and writes nothing.
C11_WriteOnlyAfterValidation ==
    [][\A r \in Reqs :
          /\ Starts(r, "register") =>
                /\ AllValid(reg.formData)
                /\ \A f \in ValidatedFields : req'[r].data[f] = reg.formData[f]
          /\ Starts(r, "update") =>
                /\ cust.editing
                /\ AllValid(cust.editingCustomer)
                /\ \A f \in ValidatedFields :
                      req'[r].data[f] = cust.editingCustomer[f]
          /\ (HandleSubmit(r) /\ ~AllValid(reg.formData)) =>
                req' = req /\ sheet' = sheet
          /\ (HandleSaveEdit(r) /\ ~AllValid(cust.editingCustomer)) =>
                req' = req /\ sheet' = sheet]_vars

\* Ana's row has been saved from the edit form with a new postal code, and a
\* save of Bo's card, whose stored email is not an email, has been refused:
\* the email error is shown and nothing is awaited.
C11_Witness ==
    /\ cust.mounted
    /\ cust.editing
    /\ cust.editingCustomer.fullName = Str_Bo
    /\ "email" \in DOMAIN cust.validationErrors
    /\ Len(sheet) = 2
    /\ sheet[1]["CEP"] = FormatCepBasic(Str_Cep8)
    /\ \A r \in Reqs : req[r].pc = "idle"

\* C16: the completion flag of the registration form is false when the page
\* opens and becomes true only by ticking the box; registerCustomer is called
\* with the flag of the form, a registration with the flag false stores "N",
\* and a List gives the flag false for every row storing "N".
C16_CompletionDefaultsFalse ==
    /\ ~reg.formData.isCompleted
    /\ [][/\ (~reg.formData.isCompleted /\ reg'.formData.isCompleted) =>
                HandleInputChange("isCompleted", TRUE)
          /\ \A r \in Reqs :
                /\ Starts(r, "register") =>
                      req'[r].data.isCompleted = reg.formData.isCompleted
                /\ (Registered(r) /\ ~req[r].data.isCompleted) =>
                      sheet'[Len(sheet')]["Realizado"] = <<"N">>
                /\ Listed(r) =>
                      \A i \in 1..Len(sheet) :
                          sheet[i]["Realizado"] = <<"N">> =>
                              ~req'[r].result.customers[i].isCompleted]_vars

\* The customer list page shows, not completed, the third customer, whom the
\* registration form registered without the box ticked.
C16_Witness ==
    /\ cust.mounted
    /\ Len(cust.customers) = 3
    /\ Len(sheet) = 3
    /\ cust.customers[3].customerCode \in GeneratedCodes
    /\ sheet[3]["Realizado"] = <<"N">>
    /\ ~cust.customers[3].isCompleted

\* C21: validateName(s) fails with the required message when s is empty, with
\* the too-short message when s has one character, with the too-long message
\* when s has more than 100 characters, and passes for 2 to 100 characters;
\* spaces count as characters.
C21_NameByLength ==
    CalledAndReturned("validateName") =>
        LET n == Len(call.arg)
        IN  /\ n = 0 => call.ret = [isValid |-> FALSE, message |-> "Nome e obrigatorio"]
            /\ n = 1 => call.ret = [isValid |-> FALSE,
                                    message |-> "Nome deve ter pelo menos 2 caracteres"]
            /\ n > 100 => call.ret = [isValid |-> FALSE,
                                      message |-> "Nome deve ter no maximo 100 caracteres"]
            /\ n \in 2..100 => call.ret = [isValid |-> TRUE, message |-> ""]

\* validateName has refused, as too long, 99 letters between two spaces.
C21_Witness ==
    /\ CalledAndReturned("validateName")
    /\ Len(call.arg) = 101
    /\ call.arg[1] = " "
    /\ call.arg[101] = " "
    /\ ~call.ret.isValid
    /\ call.ret.message = "Nome deve ter no maximo 100 caracteres"

\* One or more characters that are neither a space nor @, then @, then one
\* or more such characters, then a dot, then one or more such characters.
HasEmailShape(s) ==
    \E a \in 1..Len(s), b \in 1..Len(s) :
        LET local == SubSeq(s, 1, a - 1)
            host == SubSeq(s, a + 1, b - 1)
            rest == SubSeq(s, b + 1, Len(s))
            Plain(t) == Len(t) > 0 /\ \A k \in 1..Len(t) : t[k] \notin {" ", "@"}
        IN  /\ a < b
            /\ s[a] = "@"
            /\ s[b] = "."
            /\ Plain(local)
            /\ Plain(host)
            /\ Plain(rest)

\* C22: validateEmail(s) fails with the required message when s is empty,
\* and otherwise is valid exactly when the whole of s has the shape
\* local@host.rest, each part non-empty and free of spaces and of @.
C22_EmailValidIffShape ==
    CalledAndReturned("validateEmail") =>
        IF call.arg = <<>>
        THEN call.ret = [isValid |-> FALSE, message |-> "Email e obrigatorio"]
        ELSE call.ret.isValid <=> HasEmailShape(call.arg)

\* validateEmail has accepted an address with a dot inside its last part.
C22_Witness ==
    /\ CalledAndReturned("validateEmail")
    /\ call.arg = <<"a", "@", "a", ".", ".", "a">>
    /\ call.ret.isValid

\* The digit characters of s, in order.
RECURSIVE DigitsOf(_)
DigitsOf(s) ==
    IF Len(s) = 0 THEN <<>>
    ELSE IF IsDigit(s[1]) THEN <<s[1]>> \o DigitsOf(Tail(s))
    ELSE DigitsOf(Tail(s))

\* s reads "(" p[1] p[2] ")" " ", then the digits of p up to the last four,
\* "-", and the last four digits of p.
RendersPhone(s, p) ==
    LET n == Len(p)
    IN  /\ Len(s) = n + 4
        /\ s[1] = "("
        /\ s[2] = p[1]
        /\ s[3] = p[2]
        /\ s[4] = ")"
        /\ s[5] = " "
        /\ \A k \in 3..(n - 4) : s[k + 3] = p[k]
        /\ s[n] = "-"
        /\ \A k \in (n - 3)..n : s[k + 4] = p[k]

\* C23: formatPhone(s) is the digits of s rendered as (DD) DDDDD-DDDD when s
\* has exactly 11 digits, as (DD) DDDD-DDDD when it has exactly 10, and s
\* itself for every other digit count.
C23_FormatPhoneRendering ==
    CalledAndReturned("formatPhone") =>
        IF DigitCount(call.arg) \in {10, 11}
        THEN RendersPhone(call.ret, DigitsOf(call.arg))
        ELSE call.ret = call.arg

\* formatPhone has rendered the eleven digits of a hyphenated argument.
C23_Witness ==
    /\ CalledAndReturned("formatPhone")
    /\ call.arg = <<"1", "2", "3", "4", "5", "6", "7", "-", "8", "9", "0", "1">>
    /\ call.ret = <<"(", "1", "2", ")", " ", "3", "4", "5", "6", "7", "-",
                    "8", "9", "0", "1">>

\* s reads the first five digits of p, "-", and the last three.
RendersCep(s, p) ==
    /\ Len(s) = 9
    /\ \A k \in 1..5 : s[k] = p[k]
    /\ s[6] = "-"
    /\ \A k \in 6..8 : s[k + 1] = p[k]

\* C24: formatCEP(s) is the digits of s rendered as DDDDD-DDD when s has
\* exactly 8 digits, and s itself for every other digit count.
C24_FormatCepRendering ==
    CalledAndReturned("formatCEP") =>
        IF DigitCount(call.arg) = 8
        THEN RendersCep(call.ret, DigitsOf(call.arg))
        ELSE call.ret = call.arg

\* formatCEP has rendered the eight digits of an argument hyphenated elsewhere.
C24_Witness ==
    /\ CalledAndReturned("formatCEP")
    /\ call.arg = <<"1", "2", "-", "3", "4", "5", "6", "7", "8">>
    /\ call.ret = <<"1", "2", "3", "4", "5", "-", "6", "7", "8">>

\* C25: formatPhone is idempotent on strings of 10 or 11 digits: given the
\* value it returned for such a string, formatPhone returns that value again.
C25_FormatPhoneIdempotent ==
    [][(/\ call.fn = "formatPhone again"
        /\ ~call.done
        /\ call'.done
        /\ DigitCount(call.arg) \in {10, 11}) => call'.ret = call.arg]_vars

\* formatPhone has been given its rendering of ten digits and has returned it.
C25_Witness ==
    /\ CalledAndReturned("formatPhone again")
    /\ call.arg = <<"(", "1", "2", ")", " ", "3", "4", "5", "6", "-",
                    "7", "8", "9", "0">>
    /\ call.ret = call.arg

\* C26: for a string d of exactly 8 digits and nothing else, the digits of
\* formatCEP(d) are d.
C26_FormatCepKeepsDigits ==
    (/\ CalledAndReturned("formatCEP")
     /\ Len(call.arg) = 8
     /\ DigitCount(call.arg) = 8) => DigitsOf(call.ret) = call.arg

\* formatCEP has hyphenated eight digits, zeros at the front included.
C26_Witness ==
    /\ CalledAndReturned("formatCEP")
    /\ call.arg = <<"0", "0", "7", "0", "0", "7", "7", "0">>
    /\ call.ret = <<"0", "0", "7", "0", "0", "-", "7", "7", "0">>

\* C27: registerCustomer starts only when connectionStatus is "connected";
\* a submit while it is "unknown" or "error" starts no request and changes
\* nothing in the worksheet; when handleTestConnection completes, the status
\* is "connected" or "error" and isTestingConnection is false.
C27_RegisterOnlyWhenConnected ==
    [][\A r \in Reqs :
          /\ Starts(r, "register") => reg.connectionStatus = "connected"
          /\ (HandleSubmit(r) /\ reg.connectionStatus \in {"unknown", "error"}) =>
                req' = req /\ started' = started /\ sheet' = sheet
          /\ (reg.calls[r] = "test" /\ reg'.calls[r] = "none" /\ reg'.mounted) =>
                /\ reg'.connectionStatus \in {"connected", "error"}
                /\ ~reg'.isTestingConnection]_vars

\* A customer was registered from the form while connected, and a later
\* connection test has failed: the status is "error" and no test is running.
C27_Witness ==
    /\ reg.mounted
    /\ Len(sheet) = 3
    /\ sheet[3]["Codigo do cliente"] = Str_C9
    /\ reg.connectionStatus = "error"
    /\ ~reg.isTestingConnection
    /\ \A r \in Reqs : reg.calls[r] = "none"

\* The positions of the rows whose identifier cell parses to id.
MatchingRows(rows, id) == {i \in 1..Len(rows) : ParsesTo(rows[i]["ID"], id)}

FirstMatching(rows, id) ==
    CHOOSE i \in MatchingRows(rows, id) : \A j \in MatchingRows(rows, id) : i <= j

\* C28: when several stored rows have identifier cells that parse to the id
\* asked for, a save of updateCustomer rewrites the first of them and a
\* delete of deleteCustomer removes the first of them; the later rows with
\* that identifier, like every other row, stay as they were.
C28_FirstDuplicateOnly ==
    [][\A r \in Reqs :
          Cardinality(MatchingRows(sheet, req[r].id)) >= 2 =>
              LET f == FirstMatching(sheet, req[r].id)
              IN  /\ Saved(r) =>
                        /\ Len(sheet') = Len(sheet)
                        /\ sheet'[f]["Nome"] = req[r].data.fullName
                        /\ sheet'[f]["Realizado"] = <<"S">>
                        /\ \A j \in 1..Len(sheet) : j # f => sheet'[j] = sheet[j]
                  /\ Deleted(r) =>
                        /\ Len(sheet') = Len(sheet) - 1
                        /\ \A j \in 1..(f - 1) : sheet'[j] = sheet[j]
                        /\ \A j \in f..Len(sheet') : sheet'[j] = sheet[j + 1]]_vars

\* Rows 2 and 3 both read as identifier 7; updateCustomer(7) has renamed
\* row 2 and left row 3 as it was.
C28_Witness ==
    /\ Len(sheet) = 3
    /\ sheet[1]["ID"] = <<"x">>
    /\ sheet[2]["ID"] = <<" ", "7">>
    /\ sheet[3]["ID"] = <<"7", "x">>
    /\ sheet[2]["Nome"] = Str_Bea
    /\ sheet[3]["Nome"] = Str_Ana
    /\ \E r \in Reqs :
          /\ req[r].op = "update"
          /\ req[r].id = 7
          /\ req[r].pc = "done"
          /\ req[r].result.success

\* Request q is a getCustomers that has returned a k-th record.
ListedAt(q, k) ==
    /\ req[q].op = "list"
    /\ req[q].pc = "done"
    /\ req[q].result.success
    /\ k \in 1..Len(req[q].result.customers)

\* C29 (as claimed): an updateCustomer or deleteCustomer called with the id
\* of the k-th record getCustomers returned, nothing else having run since,
\* locates row k, the row that record was built from, and its save rewrites
\* row k or its delete removes row k; also when the identifier cell of row k
\* is absent, unparseable or zero.
C29_ListedIdLocatesItsRow ==
    [][\A r, q \in Reqs : \A k \in 1..MaxTableRows :
          (/\ ListedAt(q, k)
           /\ req[r].op \in {"update", "delete"}
           /\ req[r].id = req[q].result.customers[k].id) =>
              /\ GetRowsOk(r) => req'[r].pc = "write" /\ req'[r].idx = k
              /\ Saved(r) =>
                    /\ req'[r].result.success
                    /\ sheet'[k]["Nome"] = req[r].data.fullName
                    /\ \A j \in 1..Len(sheet) : j # k => sheet'[j] = sheet[j]
              /\ Deleted(r) =>
                    /\ req'[r].result.success
                    /\ Len(sheet') = Len(sheet) - 1
                    /\ \A j \in 1..(k - 1) : sheet'[j] = sheet[j]
                    /\ \A j \in k..Len(sheet') : sheet'[j] = sheet[j + 1]]_vars

\* C30: in the customer list page deleteCustomer starts only by a click on
\* Confirmar in a prompt, with the id of the customer the prompt is for, and
\* a prompt for a customer appears only by a click on that customer's delete
\* button; a click on Cancelar, or a prompt leaving the screen, starts nothing
\* and writes nothing; when deleteCustomer has succeeded, getCustomers is
\* called again and the list shown becomes the rows it returns.
C30_DeleteOnlyAfterConfirm ==
    [][/\ \A r \in Reqs :
             Starts(r, "delete") =>
                 \E customer \in cust.prompts :
                     ConfirmClick(customer, r) /\ req'[r].id = customer.id
       /\ \A customer \in cust'.prompts \ cust.prompts :
             \E i \in 1..Len(cust.customers) :
                 cust.customers[i] = customer /\ HandleDelete(i)
       /\ \A customer \in cust.prompts :
             (CancelClick(customer) \/ PromptCloses(customer)) =>
                 req' = req /\ started' = started /\ sheet' = sheet
       /\ \A r \in Reqs :
             (/\ cust.calls[r] = "delete"
              /\ cust'.calls[r] # "delete"
              /\ req[r].result.success) =>
                 /\ req'[r].op = "list"
                 /\ req'[r].pc = "loadInfo"
                 /\ cust'.calls[r] = "deleteReload"
       /\ \A r \in Reqs :
             (/\ cust.calls[r] = "deleteReload"
              /\ cust'.calls[r] = "none"
              /\ req[r].result.success) =>
                 cust'.customers = Customers(req[r].rows)]_vars

\* Ana's card was deleted through the prompt: her row is gone, and the list
\* shown is the one row read after the delete, Bo's.
C30_Witness ==
    /\ cust.mounted
    /\ Len(sheet) = 1
    /\ sheet[1]["Nome"] = Str_Bo
    /\ Len(cust.customers) = 1
    /\ cust.customers[1].fullName = Str_Bo
    /\ ~cust.isLoading
    /\ \A r \in Reqs : cust.calls[r] = "none"

====
